---- MODULE Spec2Model ----
(***************************************************************************)
(* navi: a netlink link-event listener (src/src/main.rs).                  *)
(*                                                                         *)
(* main() opens an rtnetlink connection, builds the event client, binds    *)
(* the socket to the broadcast groups, spawns the Connection task and then *)
(* consumes the `messages` channel one envelope at a time.  Link created / *)
(* deleted / set messages that carry an IfName attribute are forwarded as  *)
(* events through dd.send; everything else is dropped.                     *)
(***************************************************************************)
EXTENDS Integers, Sequences, FiniteSets, TLC

VARIABLES
    pc,         \* position of main(): see PcValues
    conn,       \* the Connection future: "none", "created", "polling", "closed"
    chan,       \* the `messages` channel: envelopes enqueued and not yet received
    dd,         \* the event client: "none" until Client::with_config succeeds
    bound,      \* TRUE once the socket is bound to the broadcast groups
    groups,     \* the group mask `groups`: empty until main computes it
    cur,        \* the envelope bound by `while let Some((message, _))`
    found,      \* the value returned by the last call of find_ifname
    notifies,   \* every dd.send call made so far, in call order, with its outcome
    log,        \* every line printed so far (println! / eprintln!), in order
    delivered   \* history: every envelope messages.next() has yielded, in order

vars == <<pc, conn, dd, bound, groups, chan, cur, found, notifies, log, delivered>>

----------------------------------------------------------------------------
(* Bounds of the model *)

\* envelopes the Connection task places on the channel in one run
MaxEnvelopes == 3

\* attributes a link message carries in the extractor specification
MaxNlas == 3

\* envelopes the Connection task places on the channel in one run of the
\* fair specification
MaxLiveEnvelopes == 2

----------------------------------------------------------------------------
(* Data: netlink envelopes, rtnetlink messages, link attributes *)

IfNames == {"eth0", "lo"}

\* Nla: the IfName attribute and an attribute of another tag
IfName(n) == [tag |-> "IfName", val |-> n]
OtherNla == [tag |-> "Mtu", val |-> "1500"]
Nlas == {IfName(n) : n \in IfNames} \cup {OtherNla}

\* Option<String>
None == [some |-> FALSE, val |-> ""]
Some(s) == [some |-> TRUE, val |-> s]

\* the RtnlMessage variants handle_message names, and one of the `_` arm
LinkNotifyKinds == {"NewLink", "DelLink", "SetLink"}
IgnoredKinds ==
    {"GetLink", "NewAddress", "DelAddress", "GetAddress",
     "NewNeighbour", "GetNeighbour", "DelNeighbour",
     "NewRule", "DelRule", "GetRule", "NewRoute", "DelRoute", "GetRoute"}
WildcardKinds == {"NewQueueDiscipline"}
RtnlKinds == LinkNotifyKinds \cup IgnoredKinds \cup WildcardKinds

NoMsg == [kind |-> "None", nlas |-> <<>>]
NoEnvelope == [payload |-> "None", msg |-> NoMsg]

\* the payloads without an inner message; the ErrorMessage of Error and the
\* bytes of Overrun are left out: no branch of main reads them
ControlPayloads == {"Done", "Error", "Ack", "Noop", "Overrun"}
Control(p) == [payload |-> p, msg |-> NoMsg]
InnerMessage(k, as) == [payload |-> "InnerMessage", msg |-> [kind |-> k, nlas |-> as]]

\* attribute lists of the envelopes the Connection task delivers
TransportNlas ==
    {<<>>, <<IfName("eth0")>>, <<OtherNla, IfName("lo"), IfName("eth0")>>}

\* a message of a kind that is never notified still may carry a name
IgnoredNlas == {<<IfName("eth0")>>}

Envelopes ==
    {Control(p) : p \in ControlPayloads}
        \cup {InnerMessage(k, as) : k \in LinkNotifyKinds, as \in TransportNlas}
        \cup {InnerMessage(k, as) : k \in IgnoredKinds \cup WildcardKinds, as \in IgnoredNlas}

\* all attribute lists of at most n attributes
NlaSeqs(n) == UNION {[1..m -> Nlas] : m \in 0..n}

\* all lists of at most n IfName attributes
NameSeqs(n) == UNION {[1..m -> {IfName(x) : x \in IfNames}] : m \in 0..n}

Line(text, arg) == [line |-> text, arg |-> arg]

SendStatus == {"pending", "ok", "failed"}
\* the event of one dd.send call; build() is given a title and a text at
\* every call site and is taken to return Ok
Event(title, text) == [title |-> title, text |-> text, status |-> "pending"]

PcValues ==
    {"new_connection", "client", "bind", "spawn",
     "awaiting", "classifying", "sending",
     "exit_ok", "exit_err", "panicked", "extract"}

----------------------------------------------------------------------------
(* find_ifname: the first IfName attribute of the list, if any *)

RECURSIVE scan_nlas(_)
scan_nlas(nlas) ==
    IF nlas = <<>> THEN None
    ELSE IF Head(nlas).tag = "IfName" THEN Some(Head(nlas).val)
    ELSE scan_nlas(Tail(nlas))

\* faulty variant: the scan gives up at the first attribute that is no IfName
find_ifname_head(lm) ==
    IF lm.nlas # <<>> /\ Head(lm.nlas).tag = "IfName"
    THEN Some(Head(lm.nlas).val)
    ELSE None

RECURSIVE scan_nlas_last(_)
scan_nlas_last(nlas) ==
    IF nlas = <<>> THEN None
    ELSE IF nlas[Len(nlas)].tag = "IfName" THEN Some(nlas[Len(nlas)].val)
    ELSE scan_nlas_last(SubSeq(nlas, 1, Len(nlas) - 1))

\* faulty variant: the scan keeps the last IfName attribute, not the first
find_ifname_last(lm) == scan_nlas_last(lm.nlas)

find_ifname(lm) == scan_nlas(lm.nlas)

----------------------------------------------------------------------------
(* The group mask.  The values of the RTNLGRP_* constants are not part of  *)
(* this program; a mask is the set of the constants or-ed into it, and `|` *)
(* is the union of two masks.                                              *)

Grp(name) == {name}
BitOr(a, b) == a \cup b

\* faulty variant: RTNLGRP_NSID left out of the expression
Groups_without_nsid ==
    BitOr(Grp("RTNLGRP_LINK"),
    BitOr(Grp("RTNLGRP_IPV4_IFADDR"),
    BitOr(Grp("RTNLGRP_IPV6_IFADDR"),
    BitOr(Grp("RTNLGRP_IPV4_ROUTE"),
    BitOr(Grp("RTNLGRP_IPV6_ROUTE"),
    BitOr(Grp("RTNLGRP_MPLS_ROUTE"),
    BitOr(Grp("RTNLGRP_IPV4_MROUTE"),
    BitOr(Grp("RTNLGRP_IPV6_MROUTE"),
    BitOr(Grp("RTNLGRP_NEIGH"),
    BitOr(Grp("RTNLGRP_IPV4_NETCONF"),
    BitOr(Grp("RTNLGRP_IPV6_NETCONF"),
    BitOr(Grp("RTNLGRP_IPV4_RULE"),
    BitOr(Grp("RTNLGRP_IPV6_RULE"),
          Grp("RTNLGRP_MPLS_NETCONF"))))))))))))))

Groups ==
    BitOr(Grp("RTNLGRP_LINK"),
    BitOr(Grp("RTNLGRP_IPV4_IFADDR"),
    BitOr(Grp("RTNLGRP_IPV6_IFADDR"),
    BitOr(Grp("RTNLGRP_IPV4_ROUTE"),
    BitOr(Grp("RTNLGRP_IPV6_ROUTE"),
    BitOr(Grp("RTNLGRP_MPLS_ROUTE"),
    BitOr(Grp("RTNLGRP_IPV4_MROUTE"),
    BitOr(Grp("RTNLGRP_IPV6_MROUTE"),
    BitOr(Grp("RTNLGRP_NEIGH"),
    BitOr(Grp("RTNLGRP_IPV4_NETCONF"),
    BitOr(Grp("RTNLGRP_IPV6_NETCONF"),
    BitOr(Grp("RTNLGRP_IPV4_RULE"),
    BitOr(Grp("RTNLGRP_IPV6_RULE"),
    BitOr(Grp("RTNLGRP_NSID"),
          Grp("RTNLGRP_MPLS_NETCONF")))))))))))))))

----------------------------------------------------------------------------
(* Setup: main() up to the dispatch loop *)

Init ==
    /\ pc = "new_connection"
    /\ conn = "none"
    /\ dd = "none"
    /\ bound = FALSE
    /\ groups = {}
    /\ chan = <<>>
    /\ cur = NoEnvelope
    /\ found = None
    /\ notifies = <<>>
    /\ log = <<>>
    /\ delivered = <<>>

NewConnectionOk ==
    /\ pc = "new_connection"
    /\ pc' = "client"
    /\ conn' = "created"
    /\ UNCHANGED <<dd, bound, groups, chan, cur, found, notifies, log, delivered>>

NewConnectionFail ==
    /\ pc = "new_connection"
    /\ pc' = "exit_err"
    /\ UNCHANGED <<dd, bound, groups, conn, chan, cur, found, notifies, log, delivered>>

ClientOk ==
    /\ pc = "client"
    /\ pc' = "bind"
    /\ dd' = "ready"
    /\ UNCHANGED <<bound, groups, conn, chan, cur, found, notifies, log, delivered>>

ClientFail ==
    /\ pc = "client"
    /\ pc' = "exit_err"
    /\ UNCHANGED <<dd, bound, groups, conn, chan, cur, found, notifies, log, delivered>>

BindOk ==
    /\ pc = "bind"
    /\ pc' = "spawn"
    /\ groups' = Groups
    /\ bound' = TRUE
    /\ UNCHANGED <<dd, conn, chan, cur, found, notifies, log, delivered>>

\* faulty variant: the result of bind is dropped and main goes on
BindFail_ignored ==
    /\ pc = "bind"
    /\ pc' = "spawn"
    /\ groups' = Groups
    /\ UNCHANGED <<dd, bound, conn, chan, cur, found, notifies, log, delivered>>

BindFail ==
    /\ pc = "bind"
    /\ pc' = "panicked"
    /\ groups' = Groups
    /\ UNCHANGED <<dd, bound, conn, chan, cur, found, notifies, log, delivered>>

SpawnConn ==
    /\ pc = "spawn"
    /\ pc' = "awaiting"
    /\ conn' = "polling"
    /\ UNCHANGED <<dd, bound, groups, chan, cur, found, notifies, log, delivered>>

----------------------------------------------------------------------------
(* The Connection task: polls the socket and feeds the channel *)

Running == pc \in {"awaiting", "classifying", "sending"}

\* the Connection task enqueues one more envelope, up to n in a run
ConnDeliverUpTo(n) ==
    /\ conn = "polling"
    /\ Running
    /\ Len(chan) + Len(delivered) < n
    /\ \E e \in Envelopes : chan' = Append(chan, e)
    /\ UNCHANGED <<dd, bound, groups, pc, conn, cur, found, notifies, log, delivered>>

ConnDeliver == ConnDeliverUpTo(MaxEnvelopes)

ConnDeliverLive == ConnDeliverUpTo(MaxLiveEnvelopes)

\* the socket errors or closes: the Connection future completes and its
\* sender is dropped
ConnClose ==
    /\ conn = "polling"
    /\ Running
    /\ conn' = "closed"
    /\ UNCHANGED <<dd, bound, groups, pc, chan, cur, found, notifies, log, delivered>>

----------------------------------------------------------------------------
(* The link handlers and handle_message *)

\* faulty variant: an event for the interface of the previous call is coalesced
dd_send_coalesced(title, text) ==
    IF notifies # <<>> /\ notifies[Len(notifies)].text = text
    THEN /\ pc' = "awaiting"
         /\ cur' = NoEnvelope
         /\ UNCHANGED notifies
    ELSE /\ notifies' = Append(notifies, Event(title, text))
         /\ pc' = "sending"
         /\ UNCHANGED cur

\* faulty variant: the send is spawned and the handler returns at once
dd_send_spawned(title, text) ==
    /\ notifies' = Append(notifies, Event(title, text))
    /\ pc' = "awaiting"
    /\ cur' = NoEnvelope

\* dd.send(&event): the call is made and main() is suspended on it
dd_send(title, text) ==
    /\ notifies' = Append(notifies, Event(title, text))
    /\ pc' = "sending"
    /\ UNCHANGED cur

\* the handler returns without sending: back to messages.next()
Return ==
    /\ pc' = "awaiting"
    /\ cur' = NoEnvelope
    /\ UNCHANGED notifies

\* faulty variant: a deletion already reported for this name is not sent again
on_link_deleted_once(lm) ==
    LET name == find_ifname(lm) IN
    /\ found' = name
    /\ IF name.some
       THEN /\ log' = log \o <<Line("Interface Deleted", ""), Line("was deleted", name.val)>>
            /\ IF \E i \in 1..Len(notifies) :
                     /\ notifies[i].title = "Interface Deleted"
                     /\ notifies[i].text = name.val
               THEN Return
               ELSE dd_send("Interface Deleted", name.val)
       ELSE /\ log' = Append(log, Line("Interface Deleted", ""))
            /\ Return

\* faulty variant: the name is unwrapped, so a message without one panics
on_link_deleted_unwrap(lm) ==
    LET name == find_ifname(lm) IN
    /\ found' = name
    /\ IF name.some
       THEN /\ log' = log \o <<Line("Interface Deleted", ""), Line("was deleted", name.val)>>
            /\ dd_send("Interface Deleted", name.val)
       ELSE /\ log' = Append(log, Line("Interface Deleted", ""))
            /\ pc' = "panicked"
            /\ UNCHANGED <<cur, notifies>>

on_link_deleted(lm) ==
    LET name == find_ifname(lm) IN
    /\ found' = name
    /\ IF name.some
       THEN /\ log' = log \o <<Line("Interface Deleted", ""), Line("was deleted", name.val)>>
            /\ dd_send("Interface Deleted", name.val)
       ELSE /\ log' = Append(log, Line("Interface Deleted", ""))
            /\ Return

\* faulty variant: the line is not printed before the send
on_link_created_unlogged(lm) ==
    LET name == find_ifname(lm) IN
    /\ found' = name
    /\ log' = log
    /\ IF name.some
       THEN dd_send("Interface Created", name.val)
       ELSE Return

on_link_created(lm) ==
    LET name == find_ifname(lm) IN
    /\ found' = name
    /\ IF name.some
       THEN /\ log' = Append(log, Line("is up", name.val))
            /\ dd_send("Interface Created", name.val)
       ELSE /\ log' = log
            /\ Return

\* faulty variant: the title of on_link_deleted pasted into on_link_set
on_link_set_pasted(lm) ==
    LET name == find_ifname(lm) IN
    /\ found' = name
    /\ IF name.some
       THEN /\ log' = Append(log, Line("was set", name.val))
            /\ dd_send("Interface Deleted", name.val)
       ELSE /\ log' = log
            /\ Return

on_link_set(lm) ==
    LET name == find_ifname(lm) IN
    /\ found' = name
    /\ IF name.some
       THEN /\ log' = Append(log, Line("was set", name.val))
            /\ dd_send("Interface Set", name.val)
       ELSE /\ log' = log
            /\ Return

\* faulty variant: GetLink routed to on_link_set
handle_message_getlink(msg) ==
    CASE msg.kind = "NewLink" -> on_link_created(msg)
      [] msg.kind = "DelLink" -> on_link_deleted(msg)
      [] msg.kind \in {"SetLink", "GetLink"} -> on_link_set(msg)
      [] msg.kind \in IgnoredKinds \ {"GetLink"} ->
            /\ Return
            /\ UNCHANGED <<found, log>>
      [] OTHER ->
            /\ Return
            /\ log' = Append(log, Line("Unhandled Message", msg.kind))
            /\ UNCHANGED found

handle_message(msg) ==
    CASE msg.kind = "NewLink" -> on_link_created(msg)
      [] msg.kind = "DelLink" -> on_link_deleted(msg)
      [] msg.kind = "SetLink" -> on_link_set(msg)
      [] msg.kind \in IgnoredKinds ->
            /\ Return
            /\ UNCHANGED <<found, log>>
      [] OTHER ->
            /\ Return
            /\ log' = Append(log, Line("Unhandled Message", msg.kind))
            /\ UNCHANGED found

----------------------------------------------------------------------------
(* The dispatch loop *)

\* messages.next().await yields Some((message, _))
Recv ==
    /\ pc = "awaiting"
    /\ chan # <<>>
    /\ cur' = Head(chan)
    /\ chan' = Tail(chan)
    /\ delivered' = Append(delivered, Head(chan))
    /\ pc' = "classifying"
    /\ UNCHANGED <<dd, bound, groups, conn, found, notifies, log>>

\* faulty variant: an empty channel is taken for the end of the stream
StreamEnd_on_empty ==
    /\ pc = "awaiting"
    /\ chan = <<>>
    /\ pc' = "exit_ok"
    /\ UNCHANGED <<dd, bound, groups, conn, chan, cur, found, notifies, log, delivered>>

\* messages.next().await yields None: the loop ends and main returns Ok(())
StreamEnd ==
    /\ pc = "awaiting"
    /\ chan = <<>>
    /\ conn = "closed"
    /\ pc' = "exit_ok"
    /\ UNCHANGED <<dd, bound, groups, conn, chan, cur, found, notifies, log, delivered>>

\* faulty variant: Done breaks out of the loop
PayloadDone_break ==
    /\ pc = "classifying"
    /\ cur.payload = "Done"
    /\ log' = Append(log, Line("Done", ""))
    /\ pc' = "exit_ok"
    /\ UNCHANGED <<dd, bound, groups, conn, chan, cur, found, notifies, delivered>>

PayloadDone ==
    /\ pc = "classifying"
    /\ cur.payload = "Done"
    /\ log' = Append(log, Line("Done", ""))
    /\ Return
    /\ UNCHANGED <<dd, bound, groups, conn, chan, found, delivered>>

PayloadError ==
    /\ pc = "classifying"
    /\ cur.payload = "Error"
    /\ log' = Append(log, Line("Error", ""))
    /\ Return
    /\ UNCHANGED <<dd, bound, groups, conn, chan, found, delivered>>

PayloadAck ==
    /\ pc = "classifying"
    /\ cur.payload = "Ack"
    /\ Return
    /\ UNCHANGED <<dd, bound, groups, conn, chan, found, log, delivered>>

PayloadNoop ==
    /\ pc = "classifying"
    /\ cur.payload = "Noop"
    /\ Return
    /\ UNCHANGED <<dd, bound, groups, conn, chan, found, log, delivered>>

\* faulty variant: Overrun breaks out of the loop
PayloadOverrun_break ==
    /\ pc = "classifying"
    /\ cur.payload = "Overrun"
    /\ pc' = "exit_ok"
    /\ UNCHANGED <<dd, bound, groups, conn, chan, cur, found, notifies, log, delivered>>

PayloadOverrun ==
    /\ pc = "classifying"
    /\ cur.payload = "Overrun"
    /\ Return
    /\ UNCHANGED <<dd, bound, groups, conn, chan, found, log, delivered>>

PayloadInnerMessage ==
    /\ pc = "classifying"
    /\ cur.payload = "InnerMessage"
    /\ handle_message(cur.msg)
    /\ UNCHANGED <<dd, bound, groups, conn, chan, delivered>>

SetLast(s, st) == [s EXCEPT ![Len(s)].status = st]

\* faulty variant: the send is under a timeout, after which the loop goes on
SendOk_or_timeout ==
    /\ pc = "sending"
    /\ \/ notifies' = SetLast(notifies, "ok")
       \/ notifies' = notifies
    /\ pc' = "awaiting"
    /\ cur' = NoEnvelope
    /\ UNCHANGED <<dd, bound, groups, conn, chan, found, log, delivered>>

\* dd.send(..).await returns Ok: .expect passes, the handler returns
SendOk ==
    /\ pc = "sending"
    /\ notifies' = SetLast(notifies, "ok")
    /\ pc' = "awaiting"
    /\ cur' = NoEnvelope
    /\ UNCHANGED <<dd, bound, groups, conn, chan, found, log, delivered>>

\* faulty variant: the error of dd.send is dropped and the loop goes on
SendFail_swallowed ==
    /\ pc = "sending"
    /\ notifies' = SetLast(notifies, "failed")
    /\ pc' = "awaiting"
    /\ cur' = NoEnvelope
    /\ UNCHANGED <<dd, bound, groups, conn, chan, found, log, delivered>>

\* dd.send(..).await returns Err: .expect("failed") panics
SendFail ==
    /\ pc = "sending"
    /\ notifies' = SetLast(notifies, "failed")
    /\ pc' = "panicked"
    /\ UNCHANGED <<dd, bound, groups, conn, chan, cur, found, log, delivered>>

Next ==
    \/ NewConnectionOk \/ NewConnectionFail
    \/ ClientOk \/ ClientFail
    \/ BindOk \/ BindFail
    \/ SpawnConn
    \/ ConnDeliver \/ ConnClose
    \/ Recv \/ StreamEnd
    \/ PayloadDone \/ PayloadError \/ PayloadAck \/ PayloadNoop \/ PayloadOverrun
    \/ PayloadInnerMessage
    \/ SendOk \/ SendFail

Spec == Init /\ [][Next]_vars

\* The fair specification.  The runtime polls main() whenever it can go on:
\* an envelope waiting in the channel is received, the arm of a received
\* envelope runs.  That a pending dd.send returns is the premise of the
\* property checked under it.
Classify ==
    \/ PayloadDone \/ PayloadError \/ PayloadAck \/ PayloadNoop \/ PayloadOverrun
    \/ PayloadInnerMessage

SendReturns == SendOk \/ SendFail

NextLive ==
    \/ NewConnectionOk \/ NewConnectionFail
    \/ ClientOk \/ ClientFail
    \/ BindOk \/ BindFail
    \/ SpawnConn
    \/ ConnDeliverLive \/ ConnClose
    \/ Recv \/ StreamEnd
    \/ PayloadDone \/ PayloadError \/ PayloadAck \/ PayloadNoop \/ PayloadOverrun
    \/ PayloadInnerMessage
    \/ SendOk \/ SendFail

LiveSpec ==
    /\ Init
    /\ [][NextLive]_vars
    /\ WF_vars(Recv)
    /\ WF_vars(Classify)
    /\ WF_vars(SendReturns)

TypeOK ==
    /\ pc \in PcValues
    /\ conn \in {"none", "created", "polling", "closed"}
    /\ dd \in {"none", "ready"}
    /\ bound \in BOOLEAN
    /\ groups \in {{}, Groups}
    /\ \A i \in 1..Len(chan) : chan[i] \in Envelopes
    /\ \/ cur = NoEnvelope
       \/ cur \in {Control(p) : p \in ControlPayloads}
       \/ /\ cur.payload = "InnerMessage"
          /\ cur.msg.kind \in RtnlKinds
          /\ \A i \in 1..Len(cur.msg.nlas) : cur.msg.nlas[i] \in Nlas
    /\ found \in {None} \cup {Some(n) : n \in IfNames}
    /\ \A i \in 1..Len(notifies) : notifies[i].status \in SendStatus
    /\ \A i \in 1..Len(delivered) : delivered[i] \in Envelopes

----------------------------------------------------------------------------
(* The extractor alone: find_ifname applied to link messages whose         *)
(* attribute list is edited by inserting or removing attributes that are   *)
(* not interface names                                                     *)

InsertAt(s, i, a) == SubSeq(s, 1, i - 1) \o <<a>> \o SubSeq(s, i, Len(s))
RemoveAt(s, i) == SubSeq(s, 1, i - 1) \o SubSeq(s, i + 1, Len(s))

InitExtract ==
    /\ pc = "extract"
    /\ conn = "none"
    /\ dd = "none"
    /\ bound = FALSE
    /\ groups = {}
    /\ chan = <<>>
    /\ \E k \in LinkNotifyKinds, as \in NameSeqs(MaxNlas) : cur = InnerMessage(k, as)
    /\ found = find_ifname(cur.msg)
    /\ notifies = <<>>
    /\ log = <<>>
    /\ delivered = <<>>

ExtractInsert ==
    /\ pc = "extract"
    /\ Len(cur.msg.nlas) < MaxNlas
    /\ \E i \in 1..(Len(cur.msg.nlas) + 1) :
          cur' = InnerMessage(cur.msg.kind, InsertAt(cur.msg.nlas, i, OtherNla))
    /\ found' = find_ifname(cur'.msg)
    /\ UNCHANGED <<pc, conn, dd, bound, groups, chan, notifies, log, delivered>>

ExtractRemove ==
    /\ pc = "extract"
    /\ \E i \in 1..Len(cur.msg.nlas) :
          /\ cur.msg.nlas[i].tag # "IfName"
          /\ cur' = InnerMessage(cur.msg.kind, RemoveAt(cur.msg.nlas, i))
    /\ found' = find_ifname(cur'.msg)
    /\ UNCHANGED <<pc, conn, dd, bound, groups, chan, notifies, log, delivered>>

NextExtract == ExtractInsert \/ ExtractRemove

SpecExtract == InitExtract /\ [][NextExtract]_vars

----------------------------------------------------------------------------
(* Vocabulary of the properties *)

HasIfName(nlas) == \E i \in 1..Len(nlas) : nlas[i].tag = "IfName"

\* the value of the IfName attribute that no IfName attribute precedes
FirstIfName(nlas) ==
    LET i == CHOOSE j \in 1..Len(nlas) :
                 /\ nlas[j].tag = "IfName"
                 /\ \A k \in 1..(j - 1) : nlas[k].tag # "IfName"
    IN nlas[i].val

IsControl(e) == e.payload \in ControlPayloads
IsLink(e) == e.payload = "InnerMessage" /\ e.msg.kind \in LinkNotifyKinds
IsNamedLink(e) == IsLink(e) /\ HasIfName(e.msg.nlas)
IsUnnamedLink(e) == IsLink(e) /\ ~HasIfName(e.msg.nlas)
IsNonLink(e) == e.payload = "InnerMessage" /\ e.msg.kind \notin LinkNotifyKinds

TitleOf(kind) ==
    CASE kind = "NewLink" -> "Interface Created"
      [] kind = "DelLink" -> "Interface Deleted"
      [] kind = "SetLink" -> "Interface Set"

Titles == {"Interface Created", "Interface Deleted", "Interface Set"}

Front(s) == SubSeq(s, 1, Len(s) - 1)
Last(s) == s[Len(s)]

\* the envelopes whose arm of the match has run (or is suspended in dd.send)
Handled == IF pc = "classifying" THEN Front(delivered) ELSE delivered

\* the notify calls as (title, text) pairs, in call order
Calls == [i \in 1..Len(notifies) |-> <<notifies[i].title, notifies[i].text>>]

\* the named link messages of a sequence of envelopes, as (title, name) pairs
NamedLinkEvents(es) ==
    LET named == SelectSeq(es, IsNamedLink)
    IN [i \in 1..Len(named) |->
            <<TitleOf(named[i].msg.kind), FirstIfName(named[i].msg.nlas)>>]

HasFailed == \E i \in 1..Len(notifies) : notifies[i].status = "failed"

----------------------------------------------------------------------------
(* Properties *)

\* C1: every link-created, link-deleted or link-set message that carries an
\* IfName attribute leads to exactly one dd.send call, titled "Interface
\* Created", "Interface Deleted" or "Interface Set" after its kind, with the
\* extracted name as text; no other title is ever sent.
C1_NamedLinkNotifiedOnce ==
    /\ Len(notifies) = Len(SelectSeq(Handled, IsNamedLink))
    /\ \A i \in 1..Len(notifies) : notifies[i].title \in Titles
    /\ pc = "sending" =>
          /\ IsNamedLink(cur)
          /\ Last(notifies).title = TitleOf(cur.msg.kind)
          /\ found.some
          /\ Last(notifies).text = found.val
          /\ found.val = FirstIfName(cur.msg.nlas)

C1_Witness ==
    /\ pc = "sending"
    /\ cur = InnerMessage("NewLink", <<IfName("eth0")>>)
    /\ Calls = << <<"Interface Created", "eth0">> >>

\* C2: a link-created, link-deleted or link-set message without an IfName
\* attribute (the empty list included) makes no dd.send call and no panic:
\* its handler can run, and the step it takes leads back to messages.next().
C2_UnnamedLinkSkipped ==
    /\ [](pc = "classifying" /\ IsUnnamedLink(cur) => ENABLED PayloadInnerMessage)
    /\ [][(pc = "classifying" /\ IsUnnamedLink(cur))
             => (notifies' = notifies /\ pc' \in {"classifying", "awaiting"})]_vars

C2_Witness ==
    /\ pc = "awaiting"
    /\ Len(delivered) = 2
    /\ delivered[1] = InnerMessage("DelLink", <<>>)
    /\ delivered[2] = InnerMessage("NewLink", <<>>)
    /\ notifies = <<>>

\* C3: a message of any kind other than NewLink, DelLink and SetLink makes
\* no dd.send call, whatever attributes it carries.
C3_OtherKindsNeverNotify ==
    [][(pc = "classifying" /\ IsNonLink(cur))
          => (Len(notifies') = Len(notifies) /\ pc' # "sending")]_vars

C3_Witness ==
    /\ pc = "awaiting"
    /\ Len(delivered) = 2
    /\ delivered[1] = InnerMessage("GetLink", <<IfName("eth0")>>)
    /\ delivered[2] = InnerMessage("NewQueueDiscipline", <<IfName("eth0")>>)
    /\ notifies = <<>>

\* C4: the dd.send calls are, in order, the named link-created / link-set /
\* link-deleted messages among the envelopes handled so far, each mapped to
\* (title, name): nothing is reordered, coalesced, dropped or repeated.
C4_NotifiesFollowArrivalOrder == Calls = NamedLinkEvents(Handled)

C4_Witness ==
    /\ pc = "awaiting"
    /\ delivered = <<InnerMessage("NewLink", <<IfName("eth0")>>),
                     InnerMessage("SetLink", <<IfName("eth0")>>),
                     InnerMessage("DelLink", <<IfName("eth0")>>)>>
    /\ Calls = << <<"Interface Created", "eth0">>,
                  <<"Interface Set", "eth0">>,
                  <<"Interface Deleted", "eth0">> >>
    /\ \A i \in 1..3 : notifies[i].status = "ok"

\* C5: every envelope has an arm; a Done, Error, Ack, Noop or Overrun
\* envelope takes the loop back to messages.next() and never ends it; the
\* loop is left only when the stream ends or when the handling of an inner
\* message fails.
C5_ClassificationExhaustive ==
    /\ [](pc = "classifying" =>
            ENABLED (PayloadDone \/ PayloadError \/ PayloadAck \/ PayloadNoop
                        \/ PayloadOverrun \/ PayloadInnerMessage))
    /\ [][(pc = "classifying" /\ IsControl(cur))
             => pc' \in {"classifying", "awaiting"}]_vars
    /\ [][(Running /\ ~Running')
             => \/ pc = "awaiting" /\ chan = <<>> /\ conn = "closed" /\ pc' = "exit_ok"
                \/ pc = "sending" /\ cur.payload = "InnerMessage" /\ pc' = "panicked"]_vars

C5_Witness ==
    /\ pc = "classifying"
    /\ Len(delivered) = 3
    /\ delivered[1] = Control("Done")
    /\ delivered[2] = Control("Overrun")
    /\ cur = Control("Ack")

\* C6: every Done, Error, Ack, Noop and Overrun envelope handled has
\* produced exactly one diagnostic log line, and none of them a dd.send call.
IsControlLine(l) == l.line \in ControlPayloads

C6_ControlEnvelopesLogged ==
    /\ Len(SelectSeq(log, IsControlLine)) = Len(SelectSeq(Handled, IsControl))
    /\ pc = "sending" => ~IsControl(cur)

\* C7: find_ifname does not depend on the attributes that are not IfName:
\* inserting or removing such an attribute anywhere in the list leaves the
\* extracted name as it was, and nothing is extracted exactly when the list
\* holds no IfName attribute.
C7_ExtractorIgnoresOtherAttributes ==
    /\ [](found.some <=> HasIfName(cur.msg.nlas))
    /\ [][found' = found]_vars

C7_Witness ==
    /\ pc = "extract"
    /\ cur.msg.nlas = <<OtherNla, IfName("eth0"), OtherNla>>
    /\ found = Some("eth0")

\* C8: a failed dd.send ends the process: the failed call is the last call,
\* after it no envelope is received or classified and no call is made, and
\* no message is attempted more than once.
C8_SendFailureIsFatal ==
    /\ [](HasFailed =>
            /\ pc = "panicked"
            /\ \A i \in 1..Len(notifies) :
                  notifies[i].status = "failed" <=> i = Len(notifies))
    /\ [](Len(notifies) <= Len(SelectSeq(delivered, IsNamedLink)))
    /\ [][HasFailed => UNCHANGED <<pc, cur, chan, notifies, delivered>>]_vars

C8_Witness ==
    /\ pc = "panicked"
    /\ HasFailed
    /\ Len(notifies) = 2
    /\ chan # <<>>

\* C9: the loop runs only after new_connection, Client::with_config and bind
\* have all succeeded; when one of them fails the process ends there, with
\* no envelope received and no dd.send call made, and takes no further step.
SetupFailed == pc = "exit_err" \/ (pc = "panicked" /\ ~bound)

C9_SetupPrecedesTraffic ==
    /\ []((Running \/ pc = "exit_ok") => (conn # "none" /\ dd = "ready" /\ bound))
    /\ []((conn = "none" \/ dd = "none" \/ ~bound)
            => (chan = <<>> /\ delivered = <<>> /\ notifies = <<>>))
    /\ [][SetupFailed => UNCHANGED vars]_vars

C9_Witness ==
    /\ pc = "panicked"
    /\ conn = "created"
    /\ dd = "ready"
    /\ ~bound

\* C10: once the stream has ended (the connection closed and the channel
\* drained) the waiting loop can only leave to a successful exit, and while
\* the stream has not ended and no dd.send has failed the loop is not left.
StreamEnded == conn = "closed" /\ chan = <<>>

C10_StreamEndTerminatesLoop ==
    /\ [](pc = "awaiting" /\ StreamEnded => ENABLED StreamEnd)
    /\ [][(pc = "awaiting" /\ StreamEnded) => pc' = "exit_ok"]_vars
    /\ [](pc = "exit_ok" => (StreamEnded /\ ~HasFailed))
    /\ [][(Running /\ ~Running') => (StreamEnded \/ HasFailed')]_vars

C10_Witness ==
    /\ pc = "exit_ok"
    /\ Len(delivered) = 3
    /\ Len(notifies) = 1

\* C11: main() is suspended on each dd.send until it returns: at most one
\* call is pending, it is the last call, and while it is pending main is
\* inside the handler of the envelope it received last, whatever the
\* Connection task has put on the channel meanwhile.
PendingCalls == {i \in 1..Len(notifies) : notifies[i].status = "pending"}

C11_OneSendInFlight ==
    /\ Cardinality(PendingCalls) <= 1
    /\ PendingCalls # {} =>
          /\ PendingCalls = {Len(notifies)}
          /\ pc = "sending"
          /\ cur = Last(delivered)
    /\ pc = "sending" => PendingCalls # {}

C11_Witness ==
    /\ pc = "sending"
    /\ PendingCalls = {1}
    /\ Len(delivered) = 1
    /\ Len(chan) = 2

\* C12: of several IfName attributes find_ifname returns the one that comes
\* first in the list, whatever follows it.
C12_FirstNameWins ==
    HasIfName(cur.msg.nlas) => found = Some(FirstIfName(cur.msg.nlas))

C12_Witness ==
    /\ pc = "extract"
    /\ cur.msg.nlas = <<IfName("lo"), OtherNla, IfName("eth0")>>
    /\ found = Some("lo")

\* C13: every inner message of a kind other than NewLink, DelLink and
\* SetLink is logged as unhandled: one "Unhandled Message" line for each.
IsUnhandledLine(l) == l.line = "Unhandled Message"

C13_OtherKindsLoggedUnhandled ==
    Len(SelectSeq(log, IsUnhandledLine)) = Len(SelectSeq(Handled, IsNonLink))

\* C14: a link-created, link-deleted or link-set message without an IfName
\* attribute is skipped silently: handling it prints nothing and sends
\* nothing.
C14_UnnamedLinkSilent ==
    [][(pc = "classifying" /\ IsUnnamedLink(cur))
          => (log' = log /\ notifies' = notifies)]_vars

\* C15: every dd.send call has its line naming the interface in the log by
\* the time the call is made, so the event of a failed call has been logged.
IsNamingLine(l) == l.line \in {"is up", "was deleted", "was set"}

NamingLines == SelectSeq(log, IsNamingLine)

C15_CallsAreLogged ==
    /\ Len(NamingLines) = Len(notifies)
    /\ \A i \in 1..Len(notifies) : NamingLines[i].arg = notifies[i].text

C15_Witness ==
    /\ pc = "panicked"
    /\ HasFailed
    /\ Last(notifies).title = "Interface Created"
    /\ Last(notifies).text = "eth0"
    /\ Last(log) = Line("is up", "eth0")

\* C16: from bind onward the group mask is the or of the groups link, IPv4
\* and IPv6 address, IPv4, IPv6 and MPLS route, IPv4 and IPv6 multicast
\* route, neighbour, IPv4 and IPv6 netconf, IPv4 and IPv6 rule and
\* namespace id, and of no other group.
ListedGroups ==
    {"RTNLGRP_LINK", "RTNLGRP_IPV4_IFADDR", "RTNLGRP_IPV6_IFADDR",
     "RTNLGRP_IPV4_ROUTE", "RTNLGRP_IPV6_ROUTE", "RTNLGRP_MPLS_ROUTE",
     "RTNLGRP_IPV4_MROUTE", "RTNLGRP_IPV6_MROUTE", "RTNLGRP_NEIGH",
     "RTNLGRP_IPV4_NETCONF", "RTNLGRP_IPV6_NETCONF",
     "RTNLGRP_IPV4_RULE", "RTNLGRP_IPV6_RULE", "RTNLGRP_NSID"}

C16_MaskIsListedGroups == bound => groups = ListedGroups

\* C16, amended: the mask is the or of the groups above and of MPLS
\* netconf; it is empty until main reaches bind, is computed there once and
\* is the same in every later state.
BeforeMask == pc \in {"new_connection", "client", "bind", "exit_err"}

C16_MaskIsListedGroupsAndMplsNetconf ==
    groups = IF BeforeMask THEN {} ELSE ListedGroups \cup {"RTNLGRP_MPLS_NETCONF"}

C16_Witness ==
    /\ pc = "exit_ok"
    /\ bound
    /\ Len(delivered) = 3
    /\ Cardinality(groups) = 15
    /\ "RTNLGRP_MPLS_NETCONF" \in groups

\* C17: a dd.send that does not return blocks the pipeline: as long as the
\* same call is pending no envelope is received or classified and no other
\* call is made, however many envelopes the Connection task enqueues; main
\* leaves the send only when the call has returned Ok or Err.
C17_HungSendBlocksPipeline ==
    /\ [][(PendingCalls # {} /\ PendingCalls' = PendingCalls)
             => UNCHANGED <<pc, cur, notifies, delivered, log>>]_vars
    /\ [][(pc = "sending" /\ pc' # "sending")
             => (PendingCalls' = {} /\ Len(notifies') = Len(notifies))]_vars

C17_Witness ==
    /\ pc = "sending"
    /\ PendingCalls = {1}
    /\ Len(delivered) = 1
    /\ Len(chan) = 2
    /\ conn = "closed"

\* C18: handling is stateless: the calls made for an envelope are those of
\* the envelope taken alone, whatever was received, sent or printed before;
\* a link event that repeats is sent again.
C18_HandlingIsStateless ==
    [][(pc = "classifying" /\ pc' # "classifying")
          => Calls' = Calls \o NamedLinkEvents(<<cur>>)]_vars

C18_Witness ==
    /\ pc = "awaiting"
    /\ delivered = <<Control("Overrun"),
                     InnerMessage("DelLink", <<IfName("eth0")>>),
                     InnerMessage("DelLink", <<IfName("eth0")>>)>>
    /\ Calls = << <<"Interface Deleted", "eth0">>, <<"Interface Deleted", "eth0">> >>

\* C19: when main is polled fairly and no dd.send fails, every envelope the
\* Connection task has put on the channel is received and handled, each in
\* its place and once, and the calls of the named link messages among them
\* are made.
Enqueued == delivered \o chan

Settled(n) ==
    /\ Len(Handled) >= n
    /\ Len(notifies) >= Len(NamedLinkEvents(SubSeq(delivered, 1, n)))

C19_EveryEnvelopeHandled ==
    /\ [][\/ Enqueued' = Enqueued
          \/ \E e \in Envelopes : Enqueued' = Append(Enqueued, e)]_vars
    /\ ([]~HasFailed) =>
          \A n \in 1..MaxLiveEnvelopes : (Len(Enqueued) >= n) ~> Settled(n)

C19_Witness ==
    /\ pc = "awaiting"
    /\ chan = <<>>
    /\ delivered = <<InnerMessage("NewLink", <<IfName("eth0")>>),
                     InnerMessage("SetLink", <<OtherNla, IfName("lo"), IfName("eth0")>>)>>
    /\ Calls = << <<"Interface Created", "eth0">>, <<"Interface Set", "lo">> >>
    /\ \A i \in 1..2 : notifies[i].status = "ok"

====
